---- MODULE Spec2Model ----
(***************************************************************************)
(* A model of the NAND flash translation layer of the WAF simulator:       *)
(* BaseNANDDisk (simulator/BaseNANDDisk.py) with its naive full-block      *)
(* write policy, and the in-place garbage collector of                     *)
(* simulator/NAND/WritePolicies/WritePolicyInPlace.py.                     *)
(*                                                                         *)
(* Every method is a pure operator from the object's fields (a record      *)
(* "self") to a record [ret, raised, self]: the value returned, whether a  *)
(* ValueError escaped, and the fields afterwards.  An action of the model  *)
(* is one complete call made by the driver.                                *)
(*                                                                         *)
(* The in-place policy unpacks the result of raw_read_page as              *)
(* "res, status"; res is the success flag, the value that                  *)
(* BaseNANDDisk.raw_read_page returns.                                     *)
(***************************************************************************)
EXTENDS Integers, FiniteSets, Sequences, TLC

\* ---- bounds of the model ------------------------------------------------
\* the geometries explored: at most MaxBlocks blocks of at most MaxPages
\* pages, MaxTotalPages pages in all; the driver stops once the disk has
\* done MaxWork units of work (page writes, failed writes, reads, erases)
MaxBlocks == 3
MaxPages == 3
MaxWork == 5
MaxTotalPages == 4

\* ---- simulator/NAND/common.py, simulator/BaseNANDDisk.py: constants ------
PAGE_IN_USE == "U"
PAGE_DIRTY == "D"
PAGE_EMPTY == "E"
PAGE_STATUSES == {PAGE_IN_USE, PAGE_DIRTY, PAGE_EMPTY}

write_page_time == 250
read_page_time == 25
erase_block_time == 1500

\* the two full-block write policies a disk can be built with
NAIVE == "naive"
IN_PLACE == "in place"

VARIABLES
    total_blocks,             \* class attribute: number of blocks
    pages_per_block,          \* class attribute: pages in a block
    policy,                   \* which full_block_write_policy the disk class has
    ftl,                      \* self._ftl: block -> [pages, empty, dirty]
    elapsed_time,             \* self._elapsed_time
    host_page_write_request,  \* self._host_page_write_request
    page_write_executed,      \* self._page_write_executed
    page_write_failed,        \* self._page_write_failed
    page_read_executed,       \* self._page_read_executed
    block_erase_executed,     \* self._block_erase_executed
    lastOp,                   \* the call the driver made last
    lastBlock,                \* its block argument
    lastPage,                 \* its page argument (0 for an erase)
    lastRet,                  \* the value it returned
    lastRaised                \* whether it raised instead of returning

config == <<total_blocks, pages_per_block, policy>>
fields == <<ftl, elapsed_time, host_page_write_request, page_write_executed,
            page_write_failed, page_read_executed, block_erase_executed>>
last == <<lastOp, lastBlock, lastPage, lastRet, lastRaised>>
vars == <<config, fields, last>>

Blocks == 0 .. (total_blocks - 1)
Pages == 0 .. (pages_per_block - 1)

\* the fields of the disk object, as one value
Self ==
    [ftl |-> ftl,
     elapsed_time |-> elapsed_time,
     host_page_write_request |-> host_page_write_request,
     page_write_executed |-> page_write_executed,
     page_write_failed |-> page_write_failed,
     page_read_executed |-> page_read_executed,
     block_erase_executed |-> block_erase_executed]

Returns(v, s) == [ret |-> v, raised |-> FALSE, self |-> s]
Raises(s) == [ret |-> FALSE, raised |-> TRUE, self |-> s]

Min(S) == CHOOSE x \in S : \A y \in S : x <= y

\* BaseNANDDisk.__init__
NewDisk ==
    [ftl |-> [b \in Blocks |->
                [pages |-> [p \in Pages |-> PAGE_EMPTY],
                 empty |-> pages_per_block,
                 dirty |-> 0]],
     elapsed_time |-> 0,
     host_page_write_request |-> 0,
     page_write_executed |-> 0,
     page_write_failed |-> 0,
     page_read_executed |-> 0,
     block_erase_executed |-> 0]

\* Variant of get_empty_page that scans the block from its last page.
get_empty_page_last(s, block) ==
    IF s.ftl[block].empty <= 0
    THEN [page |-> 0, raised |-> TRUE]
    ELSE LET E == {p \in Pages : s.ftl[block].pages[p] = PAGE_EMPTY}
         IN  IF E # {}
             THEN [page |-> CHOOSE x \in E : \A y \in E : x >= y,
                   raised |-> FALSE]
             ELSE [page |-> 0, raised |-> TRUE]

\* BaseNANDDisk.get_empty_page: the first empty page of the block;
\* a ValueError when the counter says there is none, or when the scan
\* finds none.
get_empty_page(s, block) ==
    IF s.ftl[block].empty <= 0
    THEN [page |-> 0, raised |-> TRUE]
    ELSE LET E == {p \in Pages : s.ftl[block].pages[p] = PAGE_EMPTY}
         IN  IF E # {} THEN [page |-> Min(E), raised |-> FALSE]
                       ELSE [page |-> 0, raised |-> TRUE]

\* Variant of the naive policy that forgets "self._ftl[block]['dirty'] += 1".
full_block_write_policy_noDirtyCount(s, block, page) ==
    LET C == {b \in Blocks : b # block /\ s.ftl[b].empty > 0}
    IN  IF C = {} THEN Returns(FALSE, s)
        ELSE LET b == Min(C)
                 g == get_empty_page(s, b)
                 p == g.page
             IN  IF g.raised THEN Raises(s)
                 ELSE Returns(TRUE,
                        [s EXCEPT !.ftl[block].pages[page] = PAGE_DIRTY,
                                  !.ftl[b].pages[p] = PAGE_IN_USE,
                                  !.ftl[b].empty = @ - 1,
                                  !.elapsed_time = @ + write_page_time,
                                  !.page_write_executed = @ + 1])

\* Variant of the naive policy that forgets "self._page_write_executed += 1".
full_block_write_policy_noWriteCount(s, block, page) ==
    LET C == {b \in Blocks : b # block /\ s.ftl[b].empty > 0}
    IN  IF C = {} THEN Returns(FALSE, s)
        ELSE LET b == Min(C)
                 g == get_empty_page(s, b)
                 p == g.page
             IN  IF g.raised THEN Raises(s)
                 ELSE Returns(TRUE,
                        [s EXCEPT !.ftl[block].pages[page] = PAGE_DIRTY,
                                  !.ftl[b].pages[p] = PAGE_IN_USE,
                                  !.ftl[block].dirty = @ + 1,
                                  !.ftl[b].empty = @ - 1,
                                  !.elapsed_time = @ + write_page_time])

\* Variant of the naive policy that invalidates the original page before it
\* looks for room (as the in-place policy does), so a failure leaves it Dirty.
full_block_write_policy_dirtyFirst(s, block, page) ==
    LET C == {b \in Blocks : b # block /\ s.ftl[b].empty > 0}
        s1 == [s EXCEPT !.ftl[block].pages[page] = PAGE_DIRTY,
                        !.ftl[block].dirty = @ + 1]
    IN  IF C = {} THEN Returns(FALSE, s1)
        ELSE LET b == Min(C)
                 g == get_empty_page(s, b)
                 p == g.page
             IN  IF g.raised THEN Raises(s)
                 ELSE Returns(TRUE,
                        [s1 EXCEPT !.ftl[b].pages[p] = PAGE_IN_USE,
                                   !.ftl[b].empty = @ - 1,
                                   !.elapsed_time = @ + write_page_time,
                                   !.page_write_executed = @ + 1])

\* Variant of the naive policy that leaves the original page IN USE.
full_block_write_policy_keepOriginal(s, block, page) ==
    LET C == {b \in Blocks : b # block /\ s.ftl[b].empty > 0}
    IN  IF C = {} THEN Returns(FALSE, s)
        ELSE LET b == Min(C)
                 g == get_empty_page(s, b)
                 p == g.page
             IN  IF g.raised THEN Raises(s)
                 ELSE Returns(TRUE,
                        [s EXCEPT !.ftl[b].pages[p] = PAGE_IN_USE,
                                  !.ftl[b].empty = @ - 1,
                                  !.elapsed_time = @ + write_page_time,
                                  !.page_write_executed = @ + 1])

\* Variant of the naive policy that scans the blocks in descending order.
full_block_write_policy_lastBlock(s, block, page) ==
    LET C == {b \in Blocks : b # block /\ s.ftl[b].empty > 0}
    IN  IF C = {} THEN Returns(FALSE, s)
        ELSE LET b == CHOOSE x \in C : \A y \in C : x >= y
                 g == get_empty_page(s, b)
                 p == g.page
             IN  IF g.raised THEN Raises(s)
                 ELSE Returns(TRUE,
                        [s EXCEPT !.ftl[block].pages[page] = PAGE_DIRTY,
                                  !.ftl[b].pages[p] = PAGE_IN_USE,
                                  !.ftl[block].dirty = @ + 1,
                                  !.ftl[b].empty = @ - 1,
                                  !.elapsed_time = @ + write_page_time,
                                  !.page_write_executed = @ + 1])

\* Variant of the naive policy with the sign slip "['empty'] += 1".
full_block_write_policy_emptyUp(s, block, page) ==
    LET C == {b \in Blocks : b # block /\ s.ftl[b].empty > 0}
    IN  IF C = {} THEN Returns(FALSE, s)
        ELSE LET b == Min(C)
                 g == get_empty_page(s, b)
                 p == g.page
             IN  IF g.raised THEN Raises(s)
                 ELSE Returns(TRUE,
                        [s EXCEPT !.ftl[block].pages[page] = PAGE_DIRTY,
                                  !.ftl[b].pages[p] = PAGE_IN_USE,
                                  !.ftl[block].dirty = @ + 1,
                                  !.ftl[b].empty = @ + 1,
                                  !.elapsed_time = @ + write_page_time,
                                  !.page_write_executed = @ + 1])

\* BaseNANDDisk.full_block_write_policy (the naive policy)
full_block_write_policy(s, block, page) ==
    LET C == {b \in Blocks : b # block /\ s.ftl[b].empty > 0}
    IN  IF C = {} THEN Returns(FALSE, s)
        ELSE LET b == Min(C)
                 g == get_empty_page(s, b)
                 p == g.page
             IN  IF g.raised THEN Raises(s)
                 ELSE Returns(TRUE,
                        [s EXCEPT !.ftl[block].pages[page] = PAGE_DIRTY,
                                  !.ftl[b].pages[p] = PAGE_IN_USE,
                                  !.ftl[block].dirty = @ + 1,
                                  !.ftl[b].empty = @ - 1,
                                  !.elapsed_time = @ + write_page_time,
                                  !.page_write_executed = @ + 1])

\* Variant of raw_read_page that charges the read time whatever the status.
raw_read_page_alwaysTimed(s, block, page) ==
    IF s.ftl[block].pages[page] = PAGE_IN_USE
    THEN Returns(TRUE, [s EXCEPT !.elapsed_time = @ + read_page_time,
                                 !.page_read_executed = @ + 1])
    ELSE Returns(FALSE, [s EXCEPT !.elapsed_time = @ + read_page_time])

\* BaseNANDDisk.raw_read_page
raw_read_page(s, block, page) ==
    IF s.ftl[block].pages[page] = PAGE_IN_USE
    THEN Returns(TRUE, [s EXCEPT !.elapsed_time = @ + read_page_time,
                                 !.page_read_executed = @ + 1])
    ELSE Returns(FALSE, s)

\* Variant of raw_erase_block that forgets "self._ftl[block]['dirty'] = 0".
raw_erase_block_keepDirty(s, block) ==
    Returns(TRUE,
        [s EXCEPT !.ftl[block].pages = [p \in Pages |-> PAGE_EMPTY],
                  !.ftl[block].empty = pages_per_block,
                  !.block_erase_executed = @ + 1,
                  !.elapsed_time = @ + erase_block_time])

\* BaseNANDDisk.raw_erase_block
raw_erase_block(s, block) ==
    Returns(TRUE,
        [s EXCEPT !.ftl[block] = [pages |-> [p \in Pages |-> PAGE_EMPTY],
                                  empty |-> pages_per_block,
                                  dirty |-> 0],
                  !.block_erase_executed = @ + 1,
                  !.elapsed_time = @ + erase_block_time])

RECURSIVE raw_write_page(_, _, _)
RECURSIVE InPlace_read_pages(_, _, _, _)
RECURSIVE InPlace_write_pages(_, _, _, _)

\* Variant of STEP 1 that keeps every page that is not EMPTY, the dirty ones
\* included.
RECURSIVE InPlace_read_pages_keepsDirty(_, _, _, _)
InPlace_read_pages_keepsDirty(s, block, p, temp_block) ==
    IF p >= pages_per_block
    THEN [self |-> s, temp_block |-> temp_block]
    ELSE LET r == raw_read_page(s, block, p)
         IN  InPlace_read_pages_keepsDirty(r.self, block, p + 1,
                 [temp_block EXCEPT ![p] =
                     IF s.ftl[block].pages[p] # PAGE_EMPTY THEN PAGE_IN_USE
                                                           ELSE PAGE_EMPTY])

\* WritePolicyInPlace.full_block_write_policy, STEP 1: read every page of
\* the block in index order; temp_block[p] is IN USE when the read succeeds.
InPlace_read_pages(s, block, p, temp_block) ==
    IF p >= pages_per_block
    THEN [self |-> s, temp_block |-> temp_block]
    ELSE LET r == raw_read_page(s, block, p)
         IN  InPlace_read_pages(r.self, block, p + 1,
                 [temp_block EXCEPT ![p] = IF r.ret THEN PAGE_IN_USE
                                                    ELSE PAGE_EMPTY])

\* WritePolicyInPlace.full_block_write_policy, STEP 3: write back the pages
\* that temp_block marks IN USE, in index order; the results are ignored.
InPlace_write_pages(s, block, p, temp_block) ==
    IF p >= pages_per_block
    THEN Returns(TRUE, s)
    ELSE IF temp_block[p] = PAGE_IN_USE
         THEN LET w == raw_write_page(s, block, p)
              IN  IF w.raised THEN Raises(w.self)
                  ELSE InPlace_write_pages(w.self, block, p + 1, temp_block)
         ELSE InPlace_write_pages(s, block, p + 1, temp_block)

\* Variant of the in-place policy without the in-memory change
\* "temp_block[page] = PAGE_IN_USE".
InPlace_full_block_write_policy_noChange(s, block, page) ==
    LET s1 == [s EXCEPT !.ftl[block].pages[page] = PAGE_DIRTY]
        rd == InPlace_read_pages(s1, block, 0, [p \in Pages |-> PAGE_EMPTY])
        er == raw_erase_block(rd.self, block)
    IN  InPlace_write_pages(er.self, block, 0, rd.temp_block)

\* WritePolicyInPlace.full_block_write_policy
InPlace_full_block_write_policy(s, block, page) ==
    LET s1 == [s EXCEPT !.ftl[block].pages[page] = PAGE_DIRTY]
        rd == InPlace_read_pages(s1, block, 0, [p \in Pages |-> PAGE_EMPTY])
        temp_block == [rd.temp_block EXCEPT ![page] = PAGE_IN_USE]
        er == raw_erase_block(rd.self, block)
    IN  InPlace_write_pages(er.self, block, 0, temp_block)

\* Variant of the method resolution in which the override of the in-place
\* policy is never picked up.
active_policy_alwaysNaive(s, block, page) ==
    full_block_write_policy(s, block, page)

\* the policy method the disk object resolves to
active_policy(s, block, page) ==
    IF policy = IN_PLACE
    THEN InPlace_full_block_write_policy(s, block, page)
    ELSE full_block_write_policy(s, block, page)

\* Variant of raw_write_page that counts a write to a DIRTY page as a failed write.
raw_write_page_dirtyFails(s, block, page) ==
    LET st == s.ftl[block].pages[page]
    IN  IF st = PAGE_EMPTY
        THEN Returns(TRUE,
                [s EXCEPT !.ftl[block].pages[page] = PAGE_IN_USE,
                          !.ftl[block].empty = @ - 1,
                          !.elapsed_time = @ + write_page_time,
                          !.page_write_executed = @ + 1])
        ELSE IF st = PAGE_IN_USE
        THEN IF s.ftl[block].empty <= 0
             THEN LET r == active_policy(s, block, page)
                  IN  IF r.raised THEN r
                      ELSE IF r.ret THEN Returns(TRUE, r.self)
                      ELSE Returns(FALSE, [r.self EXCEPT !.page_write_failed = @ + 1])
             ELSE LET g == get_empty_page(s, block)
                      newpage == g.page
                  IN  IF g.raised THEN Raises(s)
                      ELSE Returns(TRUE,
                              [s EXCEPT !.ftl[block].pages[page] = PAGE_DIRTY,
                                        !.ftl[block].pages[newpage] = PAGE_IN_USE,
                                        !.ftl[block].empty = @ - 1,
                                        !.ftl[block].dirty = @ + 1,
                                        !.elapsed_time = @ + write_page_time,
                                        !.page_write_executed = @ + 1])
        ELSE Returns(FALSE, [s EXCEPT !.page_write_failed = @ + 1])

\* Variant of raw_write_page that forgets "self._page_write_failed += 1".
raw_write_page_noFailCount(s, block, page) ==
    LET st == s.ftl[block].pages[page]
    IN  IF st = PAGE_EMPTY
        THEN Returns(TRUE,
                [s EXCEPT !.ftl[block].pages[page] = PAGE_IN_USE,
                          !.ftl[block].empty = @ - 1,
                          !.elapsed_time = @ + write_page_time,
                          !.page_write_executed = @ + 1])
        ELSE IF st = PAGE_IN_USE
        THEN IF s.ftl[block].empty <= 0
             THEN LET r == active_policy(s, block, page)
                  IN  IF r.raised THEN r
                      ELSE IF r.ret THEN Returns(TRUE, r.self)
                      ELSE Returns(FALSE, r.self)
             ELSE LET g == get_empty_page(s, block)
                      newpage == g.page
                  IN  IF g.raised THEN Raises(s)
                      ELSE Returns(TRUE,
                              [s EXCEPT !.ftl[block].pages[page] = PAGE_DIRTY,
                                        !.ftl[block].pages[newpage] = PAGE_IN_USE,
                                        !.ftl[block].empty = @ - 1,
                                        !.ftl[block].dirty = @ + 1,
                                        !.elapsed_time = @ + write_page_time,
                                        !.page_write_executed = @ + 1])
        ELSE Returns(FALSE, s)

\* Variant of raw_write_page that forgets "self._ftl[block]['empty'] -= 1" when
\* it writes an EMPTY page.
raw_write_page_noEmptyCount(s, block, page) ==
    LET st == s.ftl[block].pages[page]
    IN  IF st = PAGE_EMPTY
        THEN Returns(TRUE,
                [s EXCEPT !.ftl[block].pages[page] = PAGE_IN_USE,
                          !.elapsed_time = @ + write_page_time,
                          !.page_write_executed = @ + 1])
        ELSE IF st = PAGE_IN_USE
        THEN IF s.ftl[block].empty <= 0
             THEN LET r == active_policy(s, block, page)
                  IN  IF r.raised THEN r
                      ELSE IF r.ret THEN Returns(TRUE, r.self)
                      ELSE Returns(FALSE,
                              [r.self EXCEPT !.page_write_failed = @ + 1])
             ELSE LET g == get_empty_page(s, block)
                      newpage == g.page
                  IN  IF g.raised THEN Raises(s)
                      ELSE Returns(TRUE,
                              [s EXCEPT !.ftl[block].pages[page] = PAGE_DIRTY,
                                        !.ftl[block].pages[newpage] = PAGE_IN_USE,
                                        !.ftl[block].empty = @ - 1,
                                        !.ftl[block].dirty = @ + 1,
                                        !.elapsed_time = @ + write_page_time,
                                        !.page_write_executed = @ + 1])
        ELSE Returns(FALSE, s)

\* BaseNANDDisk.raw_write_page
raw_write_page(s, block, page) ==
    LET st == s.ftl[block].pages[page]
    IN  IF st = PAGE_EMPTY
        THEN Returns(TRUE,
                [s EXCEPT !.ftl[block].pages[page] = PAGE_IN_USE,
                          !.ftl[block].empty = @ - 1,
                          !.elapsed_time = @ + write_page_time,
                          !.page_write_executed = @ + 1])
        ELSE IF st = PAGE_IN_USE
        THEN IF s.ftl[block].empty <= 0
             THEN LET r == active_policy(s, block, page)
                  IN  IF r.raised THEN r
                      ELSE IF r.ret THEN Returns(TRUE, r.self)
                      ELSE Returns(FALSE,
                              [r.self EXCEPT !.page_write_failed = @ + 1])
             ELSE LET g == get_empty_page(s, block)
                      newpage == g.page
                  IN  IF g.raised THEN Raises(s)
                      ELSE Returns(TRUE,
                              [s EXCEPT !.ftl[block].pages[page] = PAGE_DIRTY,
                                        !.ftl[block].pages[newpage] = PAGE_IN_USE,
                                        !.ftl[block].empty = @ - 1,
                                        !.ftl[block].dirty = @ + 1,
                                        !.elapsed_time = @ + write_page_time,
                                        !.page_write_executed = @ + 1])
        ELSE Returns(FALSE, s)

\* Variant of host_write_page that counts the request whatever the result.
host_write_page_alwaysCounts(s, block, page) ==
    LET r == raw_write_page(s, block, page)
    IN  IF r.raised THEN r
        ELSE Returns(r.ret, [r.self EXCEPT !.host_page_write_request = @ + 1])

\* BaseNANDDisk.host_write_page
host_write_page(s, block, page) ==
    LET r == raw_write_page(s, block, page)
    IN  IF r.raised THEN r
        ELSE IF r.ret
        THEN Returns(TRUE, [r.self EXCEPT !.host_page_write_request = @ + 1])
        ELSE Returns(FALSE, r.self)

\* BaseNANDDisk.number_of_empty_pages / number_of_dirty_pages
RECURSIVE SumOver(_, _)
SumOver(f, S) ==
    IF S = {} THEN 0
    ELSE LET x == CHOOSE y \in S : TRUE IN f[x] + SumOver(f, S \ {x})

number_of_empty_pages(s) == SumOver([b \in Blocks |-> s.ftl[b].empty], Blocks)
number_of_dirty_pages(s) == SumOver([b \in Blocks |-> s.ftl[b].dirty], Blocks)

\* BaseNANDDisk.write_amplification, as the exact fraction <<num, den>>;
\* the division raises when no host write has been honoured yet.
write_amplification(s) ==
    [num |-> s.page_write_executed, den |-> s.host_page_write_request,
     raised |-> (s.host_page_write_request = 0)]

\* ---- the state machine ---------------------------------------------------
Init ==
    /\ total_blocks \in 1 .. MaxBlocks
    /\ pages_per_block \in 1 .. MaxPages
    /\ total_blocks * pages_per_block <= MaxTotalPages
    /\ policy \in {NAIVE, IN_PLACE}
    /\ ftl = NewDisk.ftl
    /\ elapsed_time = 0
    /\ host_page_write_request = 0
    /\ page_write_executed = 0
    /\ page_write_failed = 0
    /\ page_read_executed = 0
    /\ block_erase_executed = 0
    /\ lastOp = "init"
    /\ lastBlock = 0
    /\ lastPage = 0
    /\ lastRet = FALSE
    /\ lastRaised = FALSE

\* the work the disk has done so far; the driver stops at MaxWork
Work == page_write_executed + page_write_failed
          + page_read_executed + block_erase_executed

\* the call returned (or raised): the fields become r.self
Completes(op, block, page, r) ==
    /\ ftl' = r.self.ftl
    /\ elapsed_time' = r.self.elapsed_time
    /\ host_page_write_request' = r.self.host_page_write_request
    /\ page_write_executed' = r.self.page_write_executed
    /\ page_write_failed' = r.self.page_write_failed
    /\ page_read_executed' = r.self.page_read_executed
    /\ block_erase_executed' = r.self.block_erase_executed
    /\ lastOp' = op
    /\ lastBlock' = block
    /\ lastPage' = page
    /\ lastRet' = r.ret
    /\ lastRaised' = r.raised
    /\ UNCHANGED config

HostWritePage ==
    /\ Work < MaxWork
    /\ \E block \in Blocks, page \in Pages :
          Completes("host_write_page", block, page,
                    host_write_page(Self, block, page))

RawWritePage ==
    /\ Work < MaxWork
    /\ \E block \in Blocks, page \in Pages :
          Completes("raw_write_page", block, page,
                    raw_write_page(Self, block, page))

RawReadPage ==
    /\ Work < MaxWork
    /\ \E block \in Blocks, page \in Pages :
          Completes("raw_read_page", block, page,
                    raw_read_page(Self, block, page))

RawEraseBlock ==
    /\ Work < MaxWork
    /\ \E block \in Blocks :
          Completes("raw_erase_block", block, 0, raw_erase_block(Self, block))

Next ==
    \/ HostWritePage
    \/ RawWritePage
    \/ RawReadPage
    \/ RawEraseBlock

Spec == Init /\ [][Next]_vars

\* a naive disk whose driver writes through host_write_page only
InitNaive == Init /\ policy = NAIVE

NextHost ==
    \/ HostWritePage
    \/ RawReadPage
    \/ RawEraseBlock

SpecHost == InitNaive /\ [][NextHost]_vars

TypeOK ==
    /\ total_blocks \in 1 .. MaxBlocks
    /\ pages_per_block \in 1 .. MaxPages
    /\ total_blocks * pages_per_block <= MaxTotalPages
    /\ policy \in {NAIVE, IN_PLACE}
    /\ DOMAIN ftl = Blocks
    /\ \A b \in Blocks : /\ DOMAIN ftl[b].pages = Pages
                         /\ \A p \in Pages : ftl[b].pages[p] \in PAGE_STATUSES
    /\ lastRet \in BOOLEAN
    /\ lastRaised \in BOOLEAN

\* ---- properties ----------------------------------------------------------
WRITES == {"host_write_page", "raw_write_page"}

InUseCount(b) == Cardinality({p \in Pages : ftl[b].pages[p] = PAGE_IN_USE})

C2_ExecutedAtLeastRequested ==
    page_write_executed >= host_page_write_request

\* a successful host write after which the disk has written more pages than
\* the host asked for
C2_Witness ==
    /\ lastOp = "host_write_page" /\ lastRet
    /\ host_page_write_request > 0
    /\ page_write_executed > host_page_write_request

\* C3: a host or raw write addressed to a page whose status is DIRTY changes
\* no page status, no block counter, not the elapsed time and no statistic.
C3_DirtyWriteChangesNothing ==
    [][ (lastOp' \in WRITES /\ ftl[lastBlock'].pages[lastPage'] = PAGE_DIRTY)
            => UNCHANGED fields ]_vars

\* a write was addressed to a dirty page and came back unsuccessful
C3_Witness ==
    /\ lastOp \in WRITES /\ ~lastRet /\ ~lastRaised
    /\ ftl[lastBlock].pages[lastPage] = PAGE_DIRTY

\* the write that just completed was addressed to (b,p) and returned True
WroteOK == lastOp' \in WRITES /\ lastRet' /\ ~lastRaised'

\* the result of a read of the page just written, issued right after it
ReadBack == raw_read_page(Self', lastBlock', lastPage').ret

\* the page was EMPTY before the write, or the in-place policy rewrote its block
KeepsCoordinate ==
    \/ ftl[lastBlock'].pages[lastPage'] = PAGE_EMPTY
    \/ /\ ftl[lastBlock'].pages[lastPage'] = PAGE_IN_USE
       /\ ftl[lastBlock'].empty <= 0
       /\ policy = IN_PLACE

\* C4 (as claimed): whenever a write to (b,p) returns Success, a read of
\* (b,p) issued immediately afterwards returns Success.
C4_RoundTripAnyWrite ==
    [][ WroteOK => ReadBack ]_vars

\* C4 (amended): after a successful write to (b,p), an immediate read of
\* (b,p) returns Success exactly when the page was EMPTY before the write or
\* the write was relocated by the in-place policy; a successful overwrite
\* with room in the block, or relocated by the naive policy, leaves (b,p)
\* DIRTY and the read returns no data.
C4_RoundTrip ==
    [][ WroteOK => (ReadBack <=> KeepsCoordinate) ]_vars

\* a successful write relocated in place: the page is readable afterwards
C4_Witness ==
    /\ lastOp \in WRITES /\ lastRet
    /\ policy = IN_PLACE
    /\ block_erase_executed > 0
    /\ page_read_executed > 0
    /\ ftl[lastBlock].pages[lastPage] = PAGE_IN_USE
    /\ ftl[lastBlock].empty > 0

\* C5: a host write that fails (an IN USE page, and the policy finds no room)
\* adds exactly 1 to page_write_failed and changes nothing else.
C5_FailedWriteOnlyCounts ==
    [][ (/\ lastOp' = "host_write_page"
         /\ ~lastRet' /\ ~lastRaised'
         /\ ftl[lastBlock'].pages[lastPage'] = PAGE_IN_USE)
            => /\ page_write_failed' = page_write_failed + 1
               /\ UNCHANGED <<ftl, elapsed_time, host_page_write_request,
                              page_write_executed, page_read_executed,
                              block_erase_executed>> ]_vars

\* a host write failed: it was addressed to a page that is IN USE
C5_Witness ==
    /\ lastOp = "host_write_page" /\ ~lastRet /\ ~lastRaised
    /\ ftl[lastBlock].pages[lastPage] = PAGE_IN_USE
    /\ page_write_failed > 0

\* C6: host_write_page adds exactly 1 to host_page_write_request when it
\* returns True and leaves it alone when it returns False; a raw write, a raw
\* read, an erase and a policy relocation never change it.
C6_HostRequestCounting ==
    [][ IF lastOp' = "host_write_page" /\ lastRet'
        THEN host_page_write_request' = host_page_write_request + 1
        ELSE host_page_write_request' = host_page_write_request ]_vars

\* a host write was relocated by the policy and counted once
C6_Witness ==
    /\ lastOp = "host_write_page" /\ lastRet
    /\ host_page_write_request > 0
    /\ ftl[lastBlock].dirty + block_erase_executed > 0
    /\ ftl[lastBlock].empty = 0

\* a write to (b,p) would fail for lack of room: the page is IN USE, its
\* block is full and the call counts a failed write
FailsForSpace(b, p) ==
    /\ ftl[b].pages[p] = PAGE_IN_USE
    /\ host_write_page(Self, b, p).self.page_write_failed = page_write_failed + 1

\* C7: the result of a write addressed to a DIRTY page differs from the
\* result of a write that fails because the policy found no space, and the
\* write to the DIRTY page does not add to page_write_failed.
C7_DiscardDistinctFromFailure ==
    \A b1 \in Blocks, b2 \in Blocks, p1 \in Pages, p2 \in Pages :
        (ftl[b1].pages[p1] = PAGE_DIRTY /\ FailsForSpace(b2, p2))
            => /\ host_write_page(Self, b1, p1).ret
                    # host_write_page(Self, b2, p2).ret
               /\ host_write_page(Self, b1, p1).self.page_write_failed
                    = page_write_failed

\* C8: raw_erase_block(b) leaves every page of b EMPTY with empty =
\* pages_per_block and dirty = 0, so that every page of b reads as no data;
\* it adds 1 to block_erase_executed and erase_block_time to the elapsed
\* time, and changes nothing of any other block and no other counter.
C8_EraseResets ==
    [][ lastOp' = "raw_erase_block" =>
          /\ lastRet'
          /\ \A p \in Pages :
                /\ ftl'[lastBlock'].pages[p] = PAGE_EMPTY
                /\ ~raw_read_page(Self', lastBlock', p).ret
          /\ ftl'[lastBlock'].empty = pages_per_block
          /\ ftl'[lastBlock'].dirty = 0
          /\ block_erase_executed' = block_erase_executed + 1
          /\ elapsed_time' = elapsed_time + erase_block_time
          /\ \A b \in Blocks \ {lastBlock'} : ftl'[b] = ftl[b]
          /\ UNCHANGED <<host_page_write_request, page_write_executed,
                         page_write_failed, page_read_executed>> ]_vars

\* a block that had been written was erased while another block holds data
C8_Witness ==
    /\ lastOp = "raw_erase_block"
    /\ ftl[lastBlock].empty = pages_per_block
    /\ page_write_executed >= 2
    /\ \E b \in Blocks \ {lastBlock} : ftl[b].dirty > 0 /\ InUseCount(b) > 0

\* ---- scenario 3: naive policy, 2 blocks of 1 page -------------------------
Scenario3 == total_blocks = 2 /\ pages_per_block = 1 /\ policy = NAIVE

Block(status, empty, dirty) ==
    [pages |-> (0 :> status), empty |-> empty, dirty |-> dirty]

\* the disk of scenario 3 with the given blocks and counters
Disk3(block0, block1, time, requests, executed, failed) ==
    [ftl |-> (0 :> block0 @@ 1 :> block1),
     elapsed_time |-> time,
     host_page_write_request |-> requests,
     page_write_executed |-> executed,
     page_write_failed |-> failed,
     page_read_executed |-> 0,
     block_erase_executed |-> 0]

\* fresh; after the first write to (0,0); after the second write to (0,0)
Fresh3 == Disk3(Block(PAGE_EMPTY, 1, 0), Block(PAGE_EMPTY, 1, 0), 0, 0, 0, 0)
Once3 == Disk3(Block(PAGE_IN_USE, 0, 0), Block(PAGE_EMPTY, 1, 0), 250, 1, 1, 0)
Twice3 == Disk3(Block(PAGE_DIRTY, 0, 1), Block(PAGE_IN_USE, 0, 0), 500, 2, 2, 0)

HostWrites(b, p) ==
    lastOp' = "host_write_page" /\ lastBlock' = b /\ lastPage' = p

\* the first write of the scenario succeeds and fills block 0
FirstWrite3 ==
    (Scenario3 /\ Self = Fresh3 /\ HostWrites(0, 0))
        => (lastRet' /\ Self' = Once3)

\* the second write succeeds and is relocated to block 1
SecondWrite3 ==
    (Scenario3 /\ Self = Once3 /\ HostWrites(0, 0))
        => /\ lastRet'
           /\ ftl'[0].pages[0] = PAGE_DIRTY
           /\ ftl'[1].pages[0] = PAGE_IN_USE
           /\ page_write_executed' = 2
           /\ Self' = Twice3

\* C9 (as claimed): in scenario 3 two consecutive host writes to (0,0) both
\* succeed, the second leaves (0,0) DIRTY and (1,0) IN USE with
\* page_write_executed = 2, and the write amplification is then 2.
C9_Scenario3AmplificationTwo ==
    [][ /\ FirstWrite3
        /\ SecondWrite3
        /\ (Scenario3 /\ Self = Once3 /\ HostWrites(0, 0))
              => /\ ~write_amplification(Self').raised
                 /\ write_amplification(Self').num
                        = 2 * write_amplification(Self').den ]_vars

\* C9 (amended): in scenario 3 two consecutive host writes to (0,0) both
\* succeed, the second leaves (0,0) DIRTY and (1,0) IN USE with
\* page_write_executed = 2; both writes are counted as host requests, so the
\* write amplification is then 1 (2/2).
C9_Scenario3 ==
    [][ /\ FirstWrite3
        /\ SecondWrite3
        /\ (Scenario3 /\ Self = Once3 /\ HostWrites(0, 0))
              => /\ ~write_amplification(Self').raised
                 /\ write_amplification(Self').num
                        = write_amplification(Self').den ]_vars

\* the second write of scenario 3 has just been relocated to block 1
C9_Witness ==
    /\ Scenario3
    /\ lastOp = "host_write_page" /\ lastBlock = 0 /\ lastPage = 0 /\ lastRet
    /\ Self = Twice3

\* the third write, addressed to (1,0), fails and is counted
ThirdWriteInUse3 ==
    (Scenario3 /\ Self = Twice3 /\ HostWrites(1, 0))
        => /\ ~lastRet' /\ ~lastRaised'
           /\ page_write_failed' = 1

\* C10 (as claimed): after the two writes of scenario 3, a third host write
\* to (0,0) fails with page_write_failed = 1, and so does one to (1,0).
C10_Scenario3BothFail ==
    [][ /\ ThirdWriteInUse3
        /\ (Scenario3 /\ Self = Twice3 /\ HostWrites(0, 0))
              => /\ ~lastRet' /\ ~lastRaised'
                 /\ page_write_failed' = 1 ]_vars

\* C10 (amended): after the two writes of scenario 3, a third host write to
\* (1,0) fails with page_write_failed = 1; a third host write to (0,0), which
\* is DIRTY, is discarded: it returns False, page_write_failed stays 0 and
\* the disk is unchanged.
C10_Scenario3 ==
    [][ /\ ThirdWriteInUse3
        /\ (Scenario3 /\ Self = Twice3 /\ HostWrites(0, 0))
              => /\ ~lastRet' /\ ~lastRaised'
                 /\ page_write_failed' = 0
                 /\ Self' = Twice3 ]_vars

\* the third write of scenario 3, addressed to (1,0), has just failed
C10_Witness ==
    /\ Scenario3
    /\ lastOp = "host_write_page" /\ lastBlock = 1 /\ lastPage = 0
    /\ ~lastRet
    /\ Self = [Twice3 EXCEPT !.page_write_failed = 1]

\* ---- the policies ---------------------------------------------------------
EmptyPages(b) == {p \in Pages : ftl[b].pages[p] = PAGE_EMPTY}
DirtyPages(b) == {p \in Pages : ftl[b].pages[p] = PAGE_DIRTY}
InUsePages(b) == {p \in Pages : ftl[b].pages[p] = PAGE_IN_USE}

\* the write that this step completes reaches the full-block policy: it is
\* addressed to an IN USE page of a block without an empty page
PolicyInvoked ==
    /\ lastOp' \in WRITES
    /\ ftl[lastBlock'].pages[lastPage'] = PAGE_IN_USE
    /\ ftl[lastBlock'].empty <= 0

OtherBlocksWithRoom == {b \in Blocks : b # lastBlock' /\ EmptyPages(b) # {}}
LowestOf(S) == CHOOSE x \in S : \A y \in S : x <= y

\* C13: the naive policy, invoked for an overwrite in a full block, fails if
\* and only if no other block has an empty page; otherwise the write succeeds,
\* the first empty page of the lowest-indexed other block with room becomes
\* IN USE and the original page becomes DIRTY.
C13_NaiveRelocation ==
    [][ (policy = NAIVE /\ PolicyInvoked)
            => /\ ~lastRaised'
               /\ (~lastRet') <=> (OtherBlocksWithRoom = {})
               /\ (~lastRet') <=> (\A b \in Blocks \ {lastBlock'} :
                                       ftl[b].empty = 0)
               /\ OtherBlocksWithRoom # {} =>
                    LET b == LowestOf(OtherBlocksWithRoom)
                        p == LowestOf(EmptyPages(b))
                    IN  /\ ftl'[b].pages[p] = PAGE_IN_USE
                        /\ ftl'[lastBlock'].pages[lastPage'] = PAGE_DIRTY
                        /\ \A c \in Blocks, q \in Pages :
                              (<<c, q>> # <<b, p>>
                                  /\ <<c, q>> # <<lastBlock', lastPage'>>)
                                 => ftl'[c].pages[q] = ftl[c].pages[q] ]_vars

\* a naive disk of three blocks relocated a write from its block to the
\* lower of two other blocks, the higher one being untouched
C13_Witness ==
    /\ policy = NAIVE
    /\ total_blocks = 3
    /\ lastOp \in WRITES /\ lastRet
    /\ ftl[lastBlock].pages[lastPage] = PAGE_DIRTY
    /\ ftl[lastBlock].empty = 0
    /\ \E b \in Blocks, c \in Blocks :
          /\ b # lastBlock /\ c # lastBlock /\ b < c
          /\ InUseCount(b) > 0
          /\ ftl[c].empty = pages_per_block

\* C14: in no step does a page go from DIRTY to IN USE; a DIRTY page either
\* stays DIRTY or becomes EMPTY, and it becomes EMPTY only in a call on its
\* own block that erases the block: one more erase is counted and every
\* DIRTY page of the block becomes EMPTY with it.
C14_DirtyOnlyToEmptyByErase ==
    [][ \A b \in Blocks, p \in Pages :
          ftl[b].pages[p] = PAGE_DIRTY
            => /\ ftl'[b].pages[p] # PAGE_IN_USE
               /\ ftl'[b].pages[p] = PAGE_EMPTY
                    => /\ lastBlock' = b
                       /\ block_erase_executed' = block_erase_executed + 1
                       /\ \A q \in DirtyPages(b) :
                             ftl'[b].pages[q] = PAGE_EMPTY
                       /\ \/ lastOp' = "raw_erase_block"
                          \/ policy = IN_PLACE /\ PolicyInvoked ]_vars

\* an in-place disk reclaimed a dirty page while writing: the block written
\* last has an empty page below an IN USE one and no dirty page
C14_Witness ==
    /\ policy = IN_PLACE
    /\ lastOp \in WRITES /\ lastRet
    /\ block_erase_executed = 1
    /\ page_write_executed = 3
    /\ pages_per_block = 2
    /\ ftl[lastBlock].pages[0] = PAGE_EMPTY
    /\ ftl[lastBlock].pages[1] = PAGE_IN_USE

\* the write that this step completes overwrites an IN USE page of a block
\* that still has an empty page
OverwriteWithRoom ==
    /\ lastOp' \in WRITES
    /\ ftl[lastBlock'].pages[lastPage'] = PAGE_IN_USE
    /\ ftl[lastBlock'].empty > 0

\* C15: an overwrite of an IN USE page (b,p) while b has an empty page
\* returns True, makes (b,p) DIRTY and the lowest empty page of b IN USE,
\* takes 1 from empty[b], adds 1 to dirty[b], 1 to page_write_executed and
\* write_page_time to the elapsed time; no policy runs (no erase, no read, no
\* failed write) and no other page or block changes.
C15_OverwriteWithRoom ==
    [][ OverwriteWithRoom =>
          LET b == lastBlock'
              p == lastPage'
              n == LowestOf(EmptyPages(b))
          IN  /\ lastRet' /\ ~lastRaised'
              /\ ftl'[b].pages[p] = PAGE_DIRTY
              /\ ftl'[b].pages[n] = PAGE_IN_USE
              /\ \A q \in Pages \ {p, n} : ftl'[b].pages[q] = ftl[b].pages[q]
              /\ ftl'[b].empty = ftl[b].empty - 1
              /\ ftl'[b].dirty = ftl[b].dirty + 1
              /\ page_write_executed' = page_write_executed + 1
              /\ elapsed_time' = elapsed_time + write_page_time
              /\ \A c \in Blocks \ {b} : ftl'[c] = ftl[c]
              /\ UNCHANGED <<page_write_failed, page_read_executed,
                             block_erase_executed>> ]_vars

\* a block of three pages after one write and one overwrite with room
C15_Witness ==
    /\ pages_per_block = 3
    /\ lastOp \in WRITES /\ lastRet
    /\ lastPage = 0
    /\ ftl[lastBlock].pages = (0 :> PAGE_DIRTY @@ 1 :> PAGE_IN_USE
                                 @@ 2 :> PAGE_EMPTY)
    /\ page_write_executed = 2
    /\ block_erase_executed = 0

C17_NaiveNeverReclaims ==
    [][ (policy = NAIVE /\ lastOp' # "raw_erase_block")
            => /\ number_of_dirty_pages(Self') >= number_of_dirty_pages(Self)
               /\ number_of_empty_pages(Self') <= number_of_empty_pages(Self)
      ]_vars

\* a naive disk that was never erased has run out of empty pages, with dirty
\* pages in two blocks, and has failed a write
C17_Witness ==
    /\ policy = NAIVE
    /\ block_erase_executed = 0
    /\ number_of_empty_pages(Self) = 0
    /\ number_of_dirty_pages(Self) >= 2
    /\ \E b \in Blocks, c \in Blocks :
          b # c /\ ftl[b].dirty > 0 /\ ftl[c].dirty > 0
    /\ page_write_failed > 0

\* C18: on a naive disk whose driver writes through host_write_page only,
\* page_write_executed = host_page_write_request in every state, so that the
\* write amplification, when defined, is exactly 1.
C18_NaiveAmplificationOne ==
    /\ page_write_executed = host_page_write_request
    /\ ~write_amplification(Self).raised
          => write_amplification(Self).num = write_amplification(Self).den

\* a host write on a naive disk of one-page blocks was relocated to another
\* block
C18_Witness ==
    /\ policy = NAIVE
    /\ pages_per_block = 1
    /\ total_blocks = 3
    /\ lastOp = "host_write_page" /\ lastRet
    /\ ftl[lastBlock].pages[lastPage] = PAGE_DIRTY
    /\ host_page_write_request >= 2
    /\ ~write_amplification(Self).raised

\* C19: in every state the elapsed time is write_page_time for every page
\* written, read_page_time for every page read and erase_block_time for every
\* block erased; failed writes, discarded writes and reads without data add
\* nothing.
C19_ElapsedTime ==
    elapsed_time = write_page_time * page_write_executed
                     + read_page_time * page_read_executed
                     + erase_block_time * block_erase_executed

\* a read that found no data, on a disk that has written, read, erased and
\* failed a write
C19_Witness ==
    /\ lastOp = "raw_read_page" /\ ~lastRet
    /\ page_write_executed > 0
    /\ page_read_executed > 0
    /\ block_erase_executed > 0
    /\ page_write_failed > 0

====
